---- MODULE Spec2Model ----
(***************************************************************************)
(* Model of src/components/command/context/Context.ts: the per-invocation  *)
(* command context of Blade (reply/edit lifecycle, resolve, translate/t).  *)
(*                                                                         *)
(* JavaScript runs one continuation at a time: the code between two awaits *)
(* is one atomic step.  A call of an async method is therefore one action  *)
(* for its synchronous prefix (up to the first await) and one action for   *)
(* the continuation that runs when the awaited promise settles.            *)
(***************************************************************************)
EXTENDS Integers, Sequences, FiniteSets, TLC

\* ---------------------------------------------------------------- bounds
MaxCalls == 3      \* reply()/edit()/resolve() invocations issued on the context
MaxBatch == 2      \* message handles in one channel.send result
MaxVals == 2       \* interpolated values of a template literal

\* ---------------------------------------------------------------- values
Undef == "undefined"   \* undefined, where a string or resolver value is expected
Null == "null"
NoMsg == 0             \* undefined, where a message handle (1, 2, ...) is expected

Contents == {"string", "embed"}       \* content: string | Embed

\* attachments.size: the code reads it only through !size, so a collection
\* is empty (0) or not (1).
AttSizes == {0, 1}

VARIABLES
  shouldEdit,     \* Context.shouldEdit
  lastResponse,   \* Context.lastResponse: a message handle or NoMsg
  messages,       \* Context.messages: ordered mapping id -> message
  parseIndex,     \* Context.parseIndex
  att,            \* att[m]: attachments.size of message handle m, now
  att0,           \* att0[m]: attachments.size of m when channel.send returned it
  calls,          \* the reply()/edit() invocations, in submission order
  registry,       \* type names registered in dispatcher.resolver
  resolved,       \* the last resolve() invocation and its outcome
  nres,           \* number of resolve() invocations so far
  tcall           \* the last t() invocation and the translate call it made

vars == <<shouldEdit, lastResponse, messages, parseIndex, att, att0, calls,
          registry, resolved, nres, tcall>>

ctx == <<shouldEdit, lastResponse, messages, parseIndex>>

Last(s) == s[Len(s)]

\* ------------------------------------------------------- reply and edit

\* !this.lastResponse?.attachments.size : optional chaining yields undefined
\* when there is no last response, and !undefined is true.
NoAttachments(lr, a) == IF lr = NoMsg THEN TRUE ELSE a[lr] = 0

\* Faulty variants of the routing condition: the attachment test inverted;
\* the shouldEdit test dropped.
RouteIfAttachments(se, lr, a) == se /\ ~NoAttachments(lr, a)
RouteIgnoringShouldEdit(se, lr, a) == NoAttachments(lr, a)

\* The condition of reply's first statement.
ShouldRouteToEdit(se, lr, a) == se /\ NoAttachments(lr, a)

\* Faulty variant of setLastResponse: the first handle of a list, not the last.
setLastResponseFirst(message) == message.ids[1]

\* setLastResponse: the value stored in this.lastResponse (and returned).
setLastResponse(message) ==
  IF message.shape = "list" THEN Last(message.ids) ELSE message.ids[1]

\* Faulty variants of setEditable: the state ignored; the state negated.
setEditableAlways(state) == TRUE
setEditableNegated(state) == ~state

\* setEditable: the value stored in this.shouldEdit.
setEditable(state) == state

\* messages[messages.length - 1]: for a list the last element; a single
\* message handle has no length, the index is NaN and the value undefined.
ReplyReturn(message) ==
  IF message.shape = "list" THEN message.ids[Len(message.ids)] ELSE NoMsg

\* The argument handed to channel.send / message.edit: the text itself, or
\* a builder callback b => b.setEmbed(content).
Payload(content) == IF content = "string" THEN "text" ELSE "builder"

NoSend == [shape |-> "none", ids |-> <<>>]

Pending == {i \in DOMAIN calls : calls[i].status = "pending"}

Invocations == Len(calls) + nres

\* edit(content): dereferences lastResponse without a guard.  The request
\* in flight carries the payload; `during` remembers which invocations were
\* suspended when this one was issued, `size` the attachments.size of the
\* message the request settled with.
EditInvocation(op, content) ==
  [op |-> op, route |-> "edit",
   status |-> IF lastResponse = NoMsg THEN "threw" ELSE "pending",
   payload |-> IF lastResponse = NoMsg THEN "none" ELSE Payload(content),
   target |-> lastResponse, sent |-> NoSend, ret |-> NoMsg, size |-> 0,
   during |-> Pending]

SendInvocation(op, content) ==
  [op |-> op, route |-> "send", status |-> "pending",
   payload |-> Payload(content),
   target |-> NoMsg, sent |-> NoSend, ret |-> NoMsg, size |-> 0,
   during |-> Pending]

\* reply(content), up to its first await.
ReplyCall(content) ==
  /\ Invocations < MaxCalls
  /\ calls' = Append(calls,
                IF ShouldRouteToEdit(shouldEdit, lastResponse, att)
                  THEN EditInvocation("reply", content)
                  ELSE SendInvocation("reply", content))
  /\ UNCHANGED <<ctx, att, att0, registry, resolved, nres, tcall>>

\* edit(content) called directly.
EditCall(content) ==
  /\ Invocations < MaxCalls
  /\ calls' = Append(calls, EditInvocation("edit", content))
  /\ UNCHANGED <<ctx, att, att0, registry, resolved, nres, tcall>>

\* channel.send fulfils with one handle or a non-empty list of handles, and
\* the continuation of reply runs.  The context reads the attachments of the
\* handle it records and of no other: the other handles of a list are sent
\* without attachments.
SendResolve(i, shape, atts) ==
  /\ i \in DOMAIN calls
  /\ calls[i].status = "pending" /\ calls[i].route = "send"
  /\ shape = "single" => Len(atts) = 1
  /\ LET result == [shape |-> shape,
                    ids |-> [k \in 1..Len(atts) |-> Len(att) + k]]
         lastSent == setLastResponse(result)
     IN /\ att' = att \o atts
        /\ att0' = att0 \o atts
        /\ lastResponse' = lastSent
        /\ shouldEdit' = setEditable(att'[lastSent] = 0)
        /\ calls' = [calls EXCEPT ![i].status = "done",
                                  ![i].payload = "none",
                                  ![i].sent = result,
                                  ![i].size = Last(atts),
                                  ![i].ret = ReplyReturn(result)]
  /\ UNCHANGED <<messages, parseIndex, registry, resolved, nres, tcall>>

\* channel.send rejects: reply propagates the failure.
SendReject(i) ==
  /\ i \in DOMAIN calls
  /\ calls[i].status = "pending" /\ calls[i].route = "send"
  /\ calls' = [calls EXCEPT ![i].status = "rejected", ![i].payload = "none"]
  /\ UNCHANGED <<ctx, att, att0, registry, resolved, nres, tcall>>

\* lastResponse.edit fulfils with the edited message handle; what the
\* message carries afterwards is decided by the platform.
EditResolve(i, a) ==
  /\ i \in DOMAIN calls
  /\ calls[i].status = "pending" /\ calls[i].route = "edit"
  /\ att' = [att EXCEPT ![calls[i].target] = a]
  /\ calls' = [calls EXCEPT ![i].status = "done",
                            ![i].payload = "none",
                            ![i].size = a,
                            ![i].ret = calls[i].target]
  /\ UNCHANGED <<ctx, att0, registry, resolved, nres, tcall>>

EditReject(i) ==
  /\ i \in DOMAIN calls
  /\ calls[i].status = "pending" /\ calls[i].route = "edit"
  /\ calls' = [calls EXCEPT ![i].status = "rejected", ![i].payload = "none"]
  /\ UNCHANGED <<ctx, att, att0, registry, resolved, nres, tcall>>

\* The attachment counts of the handles of one send result.
AttSeqs ==
  {[k \in 1..n |-> IF k = n THEN a ELSE 0] : n \in 1..MaxBatch, a \in AttSizes}

\* ----------------------------------------------------------------- resolve

ParamTypes == {"int", "member"}
RawValues == {"5", "abc"}
Yields == {Undef, Null, "5", "throws"}   \* what a resolver may do with a value

\* dispatcher.resolver.type(type): the registered resolver, or undefined.
type(reg, t) == IF t \in reg THEN t ELSE Undef

\* Faulty variant of the guard: the resolver is never found missing.
ResolverNeverMissing(resolver) == FALSE

\* if (!resolver)
ResolverMissing(resolver) == resolver = Undef

\* x ?? null
OrNull(x) == IF x \in {Undef, Null} THEN Null ELSE x

NoResolve == [value |-> Undef, type |-> Undef, invoked |-> FALSE,
              yielded |-> Undef, outcome |-> "none", result |-> Undef]

\* resolve(value, type); y is what the resolver does when it is invoked.
Resolve(value, ty, y) ==
  /\ Invocations < MaxCalls
  /\ LET resolver == type(registry, ty)
     IN resolved' =
          IF ResolverMissing(resolver)
            THEN [value |-> value, type |-> ty, invoked |-> FALSE,
                  yielded |-> Undef,
                  outcome |-> "TypeDoesNotExist", result |-> Undef]
          ELSE IF y = "throws"
            THEN [value |-> value, type |-> ty, invoked |-> TRUE,
                  yielded |-> y,
                  outcome |-> "ResolverFailed", result |-> Undef]
            ELSE [value |-> value, type |-> ty, invoked |-> TRUE,
                  yielded |-> y,
                  outcome |-> "returned", result |-> OrNull(y)]
  /\ nres' = nres + 1
  /\ UNCHANGED <<ctx, att, att0, calls, registry, tcall>>

NoT == [form |-> "none"]

\* The state the constructor leaves.
Init ==
  /\ shouldEdit = FALSE
  /\ lastResponse = NoMsg
  /\ messages = <<>>
  /\ parseIndex = 0
  /\ att = <<>>
  /\ att0 = <<>>
  /\ calls = <<>>
  /\ registry = {"int"}
  /\ resolved = NoResolve
  /\ nres = 0
  /\ tcall = NoT

Next ==
  \/ \E c \in Contents : ReplyCall(c)
  \/ \E c \in Contents : EditCall(c)
  \/ \E i \in 1..MaxCalls, sh \in {"single", "list"}, as \in AttSeqs :
       SendResolve(i, sh, as)
  \/ \E i \in 1..MaxCalls : SendReject(i)
  \/ \E i \in 1..MaxCalls, a \in AttSizes : EditResolve(i, a)
  \/ \E i \in 1..MaxCalls : EditReject(i)
  \/ \E v \in RawValues, ty \in ParamTypes, y \in Yields : Resolve(v, ty, y)

Spec == Init /\ [][Next]_vars

\* Every invocation is awaited before the next one is issued.
SeqReplyCall(content) == Pending = {} /\ ReplyCall(content)
SeqEditCall(content) == Pending = {} /\ EditCall(content)

NextSeq ==
  \/ \E c \in Contents : SeqReplyCall(c)
  \/ \E c \in Contents : SeqEditCall(c)
  \/ \E i \in 1..MaxCalls, sh \in {"single", "list"}, as \in AttSeqs :
       SendResolve(i, sh, as)
  \/ \E i \in 1..MaxCalls : SendReject(i)
  \/ \E i \in 1..MaxCalls, a \in AttSizes : EditResolve(i, a)
  \/ \E i \in 1..MaxCalls : EditReject(i)
  \/ \E v \in RawValues, ty \in ParamTypes, y \in Yields : Resolve(v, ty, y)

SeqSpec == Init /\ [][NextSeq]_vars

\* ----------------------------------------------------------- translate, t

\* JavaScript values handed to t: tagged tuples.  A string is the sequence
\* of its characters.
UndefV == <<"undef">>
NullV == <<"null">>
StrV(chars) == <<"str", chars>>
NumV(n) == <<"num", n>>
ArrV(elems) == <<"arr", elems>>

DigitChars == <<"0", "1", "2", "3", "4", "5", "6", "7", "8", "9">>

\* Number to decimal string (non-negative integers).
RECURSIVE Digits(_)
Digits(n) ==
  IF n < 10 THEN <<DigitChars[n + 1]>>
  ELSE Digits(n \div 10) \o <<DigitChars[(n % 10) + 1]>>

\* String(v), as string concatenation applies it.  An array is the join of
\* its elements with ",", where undefined and null elements are empty.
RECURSIVE Stringify(_)
RECURSIVE JoinComma(_)
JoinComma(elems) ==
  IF elems = <<>> THEN <<>>
  ELSE LET e == Head(elems)
           first == IF e[1] \in {"undef", "null"} THEN <<>> ELSE Stringify(e)
       IN IF Len(elems) = 1 THEN first
          ELSE first \o <<",">> \o JoinComma(Tail(elems))
Stringify(v) ==
  CASE v[1] = "str" -> v[2]
    [] v[1] = "num" -> Digits(v[2])
    [] v[1] = "arr" -> JoinComma(v[2])
    [] v[1] = "undef" -> <<"u", "n", "d", "e", "f", "i", "n", "e", "d">>
    [] v[1] = "null" -> <<"n", "u", "l", "l">>

\* values[i], zero-based in the source and one-based here: reading past the
\* end of an array yields undefined.
At(values, i) == IF i <= Len(values) THEN values[i] ELSE UndefV

\* x ?? ""
OrEmpty(x) == IF x[1] \in {"undef", "null"} THEN StrV(<<>>) ELSE x

\* strings.map((s, i) => s + (values[i] ?? "")).join("")
RECURSIVE JoinFrom(_, _, _)
JoinFrom(strings, values, i) ==
  IF i > Len(strings) THEN <<>>
  ELSE strings[i] \o Stringify(OrEmpty(At(values, i)))
         \o JoinFrom(strings, values, i + 1)
Joined(strings, values) == JoinFrom(strings, values, 1)

\* The rest arguments the inner tag function receives when t is itself used
\* as the tag: translate()(a1, a2) hands it the array a2 as one argument.
TagRest(a2) == <<ArrV(a2)>>

\* A Dictionary is a set of <<key, value>> pairs; {} is the empty one.
EmptyDict == {}
Dicts == {EmptyDict, {<<"name", "world">>}}

Segs == {<<>>, <<"a">>, <<"b">>}
TVals == {UndefV, NullV, StrV(<<"x">>), NumV(7)}
Templates ==
  UNION {[1..(n + 1) -> Segs] \X [1..n -> TVals] : n \in 0..MaxVals}

\* translate(path, context): language is what this.language() resolved to.
Translate(path, context, language) ==
  IF language = Undef
    THEN [path |-> path, context |-> context,
          outcome |-> "NoLanguageHandler"]
    ELSE [path |-> path, context |-> context, outcome |-> "translated"]

\* t`...`: t used as the template tag.  t keeps no state: one invocation is
\* followed from the constructed context.
TTag(strings, values, language) ==
  /\ tcall = NoT
  /\ tcall' = [form |-> "tag", strings |-> strings, values |-> values,
               vars |-> EmptyDict,
               translate |-> <<Translate(Joined(strings, TagRest(values)),
                                         EmptyDict, language)>>]
  /\ UNCHANGED <<ctx, att, att0, calls, registry, resolved, nres>>

\* t(context)`...`: t called with a dictionary, the returned tag applied.
TVars(context, strings, values, language) ==
  /\ tcall = NoT
  /\ tcall' = [form |-> "vars", strings |-> strings, values |-> values,
               vars |-> context,
               translate |-> <<Translate(Joined(strings, values),
                                         context, language)>>]
  /\ UNCHANGED <<ctx, att, att0, calls, registry, resolved, nres>>

NextT ==
  \/ tcall = NoT /\ \E tpl \in Templates, l \in {Undef, "en"} :
       TTag(tpl[1], tpl[2], l)
  \/ tcall = NoT /\ \E d \in Dicts, tpl \in Templates, l \in {Undef, "en"} :
       TVars(d, tpl[1], tpl[2], l)

TSpec == Init /\ [][NextT]_vars

\* ==================================================================
\* Properties
\* ==================================================================

Replies == {i \in DOMAIN calls : calls[i].op = "reply"}
SendCalls == {i \in DOMAIN calls : calls[i].route = "send"}
Done(i) == calls[i].status = "done"
Min(S) == CHOOSE x \in S : \A y \in S : x <= y
Max(S) == CHOOSE x \in S : \A y \in S : x >= y

\* The invocation that this step appended, when it appended one.
Issued == Len(calls') = Len(calls) + 1
New == calls'[Len(calls')]

\* Invocation i settled successfully in this step.
Completes(i) == calls[i].status = "pending" /\ calls'[i].status = "done"

\* No message of the channel has, or ever had, attachments.
NoAttachmentAnywhere ==
  /\ \A m \in DOMAIN att : att[m] = 0 /\ att0[m] = 0
  /\ \A i \in DOMAIN calls : calls[i].size = 0

NoRejection == \A i \in DOMAIN calls : calls[i].status # "rejected"

LastReplySentAttachments ==
  /\ Replies # {}
  /\ LET j == Max(Replies)
     IN calls[j].route = "send" /\ Done(j) /\ calls[j].size > 0

\* A reply's send completes in this step and records a message with
\* attachments: shouldEdit is false afterwards.
AttachmentSendClearsEditMode ==
  \A i \in DOMAIN calls :
    (/\ calls[i].op = "reply" /\ calls[i].route = "send"
     /\ Completes(i)
     /\ att'[lastResponse'] > 0) => ~shouldEdit'

\* C2 as stated: when a reply that sent a new message completes and the
\* message it recorded as lastResponse has an attachment, shouldEdit is false
\* after that step; and the reply issued next takes the send path.
C2_Original ==
  [][ /\ AttachmentSendClearsEditMode
      /\ (Issued /\ New.op = "reply" /\ LastReplySentAttachments) =>
           New.route = "send" ]_vars

\* The message recorded by a reply's send, with attachments, is still
\* lastResponse: no other send has completed since.
AttachmentSendStillLast ==
  \E j \in Replies :
    /\ calls[j].route = "send" /\ Done(j) /\ calls[j].size > 0
    /\ lastResponse = Last(calls[j].sent.ids)

\* C2 amended: shouldEdit is false once such a reply completes; and a reply
\* issued while that message is still lastResponse (no other reply's send
\* has completed in between, as when every call is awaited) takes the send
\* path.
C2_Amended ==
  [][ /\ AttachmentSendClearsEditMode
      /\ (Issued /\ New.op = "reply" /\ AttachmentSendStillLast) =>
           New.route = "send" ]_vars

C2_Witness ==
  \E i, j \in Replies :
    /\ i < j /\ j = Max(Replies) /\ i = Max(Replies \ {j})
    /\ calls[i].route = "send" /\ Done(i) /\ calls[i].size > 0
    /\ calls[j].route = "send" /\ Done(j)
    /\ i \notin calls[j].during

\* C3: shouldEdit is true only if lastResponse is defined, was sent by a
\* reply, and carried no attachments when it was sent; and whenever either
\* field changes, it is a reply's send completing, which sets both together.
C3_EditModeOnlyAfterPlainSend ==
  /\ [](shouldEdit =>
          /\ lastResponse # NoMsg
          /\ att0[lastResponse] = 0
          /\ \E i \in Replies :
               /\ calls[i].route = "send" /\ Done(i)
               /\ Last(calls[i].sent.ids) = lastResponse)
  /\ [][ (shouldEdit' # shouldEdit \/ lastResponse' # lastResponse) =>
           /\ lastResponse' # NoMsg
           /\ shouldEdit' = (att'[lastResponse'] = 0)
           /\ \E i \in Replies :
                /\ calls[i].route = "send" /\ Completes(i)
                /\ Last(calls'[i].sent.ids) = lastResponse' ]_vars

C3_Witness ==
  /\ shouldEdit
  /\ \E i, j \in Replies :
       /\ i \in calls[j].during
       /\ Done(i) /\ Done(j)
       /\ calls[j].size > 0 /\ calls[i].size = 0
       /\ lastResponse = Last(calls[i].sent.ids)

\* C4 as stated: after any reply completes, by a send or by an edit,
\* shouldEdit equals "lastResponse has no attachments".
C4_Original ==
  [][ \A i \in DOMAIN calls :
        (calls[i].op = "reply" /\ Completes(i)) =>
          shouldEdit' = (lastResponse' # NoMsg /\ att'[lastResponse'] = 0) ]_vars

\* C4 amended: a reply that sent a new message sets shouldEdit, when it
\* completes, to "the message it recorded as lastResponse has no
\* attachments"; a reply routed to edit changes neither shouldEdit nor
\* lastResponse when it completes, whatever the edited message then carries.
C4_Amended ==
  [][ \A i \in DOMAIN calls :
        (calls[i].op = "reply" /\ Completes(i)) =>
          /\ calls[i].route = "send" =>
               /\ lastResponse' = Last(calls'[i].sent.ids)
               /\ shouldEdit' = (att'[lastResponse'] = 0)
          /\ calls[i].route = "edit" =>
               /\ shouldEdit' = shouldEdit
               /\ lastResponse' = lastResponse ]_vars

C4_Witness ==
  /\ shouldEdit
  /\ lastResponse # NoMsg
  /\ att[lastResponse] > 0
  /\ \E i \in Replies :
       calls[i].route = "edit" /\ Done(i) /\ calls[i].target = lastResponse

\* C5: a reply that took the send path returns the message it recorded as
\* lastResponse: the single handle, or the last handle of the list.
C5_SendPathReturnsRecorded ==
  \A i \in Replies :
    (calls[i].route = "send" /\ Done(i)) =>
      calls[i].ret = Last(calls[i].sent.ids)

\* The literal segments and the values interleaved, each value stringified
\* on its own, undefined and null contributing nothing.
RECURSIVE Interleave(_, _)
Interleave(strings, values) ==
  IF values = <<>> THEN Head(strings)
  ELSE LET v == Head(values)
           piece == CASE v[1] \in {"undef", "null"} -> <<>>
                      [] v[1] = "str" -> v[2]
                      [] v[1] = "num" -> Digits(v[2])
       IN Head(strings) \o piece \o Interleave(Tail(strings), Tail(values))

\* C6: t used as a template tag calls translate exactly once, with the
\* literal segments and the stringified values interleaved as the path and
\* with an empty variables object.
C6_TagPathInterleaves ==
  tcall.form = "tag" =>
    /\ Len(tcall.translate) = 1
    /\ tcall.translate[1].path = Interleave(tcall.strings, tcall.values)
    /\ tcall.translate[1].context = EmptyDict

\* C7: every message sent by a completed reply is present in messages.
C7_MessagesHoldEverySent ==
  \A i \in Replies :
    (calls[i].route = "send" /\ Done(i)) =>
      \A k \in DOMAIN calls[i].sent.ids :
        \E e \in DOMAIN messages : messages[e][2] = calls[i].sent.ids[k]

\* C8: resolve with an unregistered type fails with the type-not-found error
\* without invoking a resolver, for every value, and leaves lastResponse,
\* shouldEdit, messages and parseIndex as they were; with a registered type
\* the resolver is invoked and resolve returns what it yielded, or null when
\* it yielded undefined or null.
C8_ResolveUnknownTypeFails ==
  /\ [](resolved.outcome # "none" =>
          /\ resolved.type \notin registry =>
               /\ resolved.outcome = "TypeDoesNotExist"
               /\ ~resolved.invoked
          /\ resolved.type \in registry =>
               /\ resolved.invoked
               /\ resolved.outcome \in {"returned", "ResolverFailed"}
               /\ resolved.outcome = "returned" =>
                    resolved.result =
                      (IF resolved.yielded \in {Undef, Null}
                         THEN Null ELSE resolved.yielded))
  /\ [][ (nres' # nres /\ resolved'.outcome = "TypeDoesNotExist") =>
           UNCHANGED <<shouldEdit, lastResponse, messages, parseIndex>> ]_vars

C8_Witness ==
  /\ resolved.outcome = "TypeDoesNotExist"
  /\ resolved.type \notin registry
  /\ lastResponse # NoMsg /\ shouldEdit

\* C9: edit issued while lastResponse is unset throws: no request is made,
\* nothing is sent, and lastResponse, shouldEdit and the channel stay as they
\* were; reply never throws this way, because it routes to edit only when
\* lastResponse is defined.
C9_EditWithoutResponseThrows ==
  /\ [][ (Issued /\ New.op = "edit" /\ lastResponse = NoMsg) =>
           /\ New.status = "threw"
           /\ New.payload = "none" /\ New.ret = NoMsg
           /\ UNCHANGED <<shouldEdit, lastResponse, messages, att>> ]_vars
  /\ [](\A i \in Replies :
          /\ calls[i].status # "threw"
          /\ calls[i].route = "edit" => calls[i].target # NoMsg)

C9_Witness ==
  /\ \E i \in DOMAIN calls : calls[i].op = "edit" /\ calls[i].status = "threw"
  /\ \E i \in Replies : calls[i].route = "edit" /\ Done(i)

\* Reply j was issued while reply i was suspended.
Overlap(i, j) ==
  /\ i \in Replies /\ j \in Replies
  /\ i < j
  /\ i \in calls[j].during

\* C10 as stated: of two overlapping replies, with no attachments anywhere,
\* at most one performs channel.send, and once both have completed
\* lastResponse is the message of the one submitted last.
C10_Original ==
  \A i, j \in DOMAIN calls :
    (Overlap(i, j) /\ NoAttachmentAnywhere) =>
      /\ ~(calls[i].route = "send" /\ calls[j].route = "send")
      /\ (Done(i) /\ Done(j) /\ calls[j].route = "send") =>
           lastResponse = Last(calls[j].sent.ids)

\* No send issued before invocation j had completed when j was issued.
NoSendDoneBefore(j) ==
  \A k \in 1..(j - 1) :
    calls[k].route = "send" =>
      (k \in calls[j].during \/ calls[k].status = "rejected")

\* C10 amended: when two replies overlap before any send of the context has
\* completed, with no attachments anywhere, both perform channel.send; and
\* once both have completed (and no other send has), lastResponse is the
\* message of the send that completed last (handles are numbered in the
\* order the channel produced them), with shouldEdit true.
C10_Amended ==
  \A i, j \in DOMAIN calls :
    (Overlap(i, j) /\ NoSendDoneBefore(j) /\ NoAttachmentAnywhere) =>
      /\ calls[i].route = "send" /\ calls[j].route = "send"
      /\ (/\ Done(i) /\ Done(j)
          /\ \A k \in SendCalls \ {i, j} : ~Done(k)) =>
           /\ lastResponse = Max({Last(calls[i].sent.ids),
                                  Last(calls[j].sent.ids)})
           /\ shouldEdit

\* Both overlapping replies have completed, the one submitted first last.
C10_Witness ==
  /\ NoAttachmentAnywhere
  /\ \E i, j \in DOMAIN calls :
       /\ Overlap(i, j) /\ NoSendDoneBefore(j)
       /\ Done(i) /\ Done(j)
       /\ Len(calls[i].sent.ids) = 2
       /\ lastResponse = Last(calls[i].sent.ids)
       /\ Last(calls[i].sent.ids) > Last(calls[j].sent.ids)

====
